---- MODULE Spec2Model ----
(***************************************************************************)
(* The user-directory service of src/user_service.py behind the handlers   *)
(* of src/routers/user_router.py.                                          *)
(*                                                                         *)
(* A Python str is a sequence of one-character strings.  The dict          *)
(* self.users is a sequence of entries [key, user] in insertion order,     *)
(* which is the iteration order of a Python dict.                          *)
(***************************************************************************)
EXTENDS Integers, Sequences, FiniteSets, TLC

VARIABLES
    users,      \* self.users
    next_id,    \* self.next_id
    last,       \* the latest call: its arguments and what it answered
    assigned,   \* ids given to a record since the process started
    deleted,    \* ids deleted since the process started
    issued,     \* ids given to a record since the latest reset
    freed,      \* ids deleted since the latest reset
    inflight    \* per connection, the request received and not yet handled

vars == <<users, next_id, last, assigned, deleted, issued, freed, inflight>>

----------------------------------------------------------------------------
(* Bounds and inputs *)

\* create is not called once the counter has reached this value
MaxNextId == 8

InUsernames ==
    { <<>>, <<"t", "e", "s", "t">>, <<"T", "e", "s", "t">>,
      <<"b", "o", "b">> }

InEmails ==
    { <<" ">>, <<"t", "@", "x", ".", "c", "o", "m">>,
      <<"b", "o", "b", "@", "x", ".", "c", "o", "m">> }

InPasswords ==
    { <<>>, <<" ", " ", " ", " ", " ", " ">>, <<"1", "2", "3">>,
      <<"s", "e", "c", "r", "e", "t">> }

\* " ", "\t ", " bob", "bob ", "bob"
InPaddedUsernames ==
    { <<" ">>, <<"\t", " ">>, <<" ", "b", "o", "b">>,
      <<"b", "o", "b", " ">>, <<"b", "o", "b">> }

\* " \n", "bob@x.com ", "bob@x.com"
InPaddedEmails ==
    { <<" ", "\n">>,
      <<"b", "o", "b", "@", "x", ".", "c", "o", "m", " ">>,
      <<"b", "o", "b", "@", "x", ".", "c", "o", "m">> }

\* six spaces, "\t\r\n \t\r\n", " 12345", "secret"
InPaddedPasswords ==
    { <<" ", " ", " ", " ", " ", " ">>,
      <<"\t", "\r", "\n", " ", "\t", "\r", "\n">>,
      <<" ", "1", "2", "3", "4", "5">>,
      <<"s", "e", "c", "r", "e", "t">> }

\* new addresses for updateEmail
InNewEmails ==
    { <<"t", "@", "x", ".", "c", "o", "m">>,
      <<"T", "@", "x", ".", "c", "o", "m">>,
      <<"b", "o", "b", "@", "x", ".", "c", "o", "m">> }

\* an id that is never live, a seed id, the first id create assigns
InUserIds == {0, 1, 6}

\* an Optional[str] is <<>> for None and <<s>> for the string s

\* the email field of a PUT body: absent, or one of the new addresses
InBodyEmails == {<<>>} \cup {<<e>> : e \in InNewEmails}

\* the connections that can hold a request at the same time
InConns == {1, 2}

\* a connection with no request in flight
NoRequest == [op |-> "none"]

\* the requests that are in flight together: creates that share a username
\* or an email, updateEmails to the addresses the creates use, a delete and
\* a get of the record the creates store, a list of the page that record
\* is on, a reset
InRequests ==
    { [op |-> "create", username |-> <<"b", "o", "b">>,
       email |-> <<"b", "o", "b", "@", "x", ".", "c", "o", "m">>,
       password |-> <<"s", "e", "c", "r", "e", "t">>],
      [op |-> "create", username |-> <<"b", "o", "b">>,
       email |-> <<"t", "@", "x", ".", "c", "o", "m">>,
       password |-> <<"s", "e", "c", "r", "e", "t">>],
      [op |-> "create", username |-> <<"T", "e", "s", "t">>,
       email |-> <<"b", "o", "b", "@", "x", ".", "c", "o", "m">>,
       password |-> <<"s", "e", "c", "r", "e", "t">>],
      [op |-> "updateEmail", user_id |-> 1,
       email |-> << <<"b", "o", "b", "@", "x", ".", "c", "o", "m">> >>],
      [op |-> "updateEmail", user_id |-> 6,
       email |-> << <<"t", "@", "x", ".", "c", "o", "m">> >>],
      [op |-> "delete", user_id |-> 6],
      [op |-> "get", user_id |-> 6],
      [op |-> "list", page |-> 2, size |-> 5, keyword |-> <<>>],
      [op |-> "reset"] }

InPages == {0, 1, 2, 3}

InSizes == {0, 3, 5, 101}

\* no keyword, "", "john", "T@X", "E"
InKeywords ==
    { <<>>, << <<>> >>, << <<"j", "o", "h", "n">> >>,
      << <<"T", "@", "X">> >>, << <<"E">> >> }

\* the queries of GET /users: the pages 1 to 3 of 3 and of 5 without a
\* keyword, the first page of 5 with every keyword, the pages of 3 with
\* the keyword "E"; and page 0, size 0 and size 101, each with the other
\* parameter in its range
InQueries ==
    {q \in InPages \X InSizes \X InKeywords :
       \/ q[1] >= 1 /\ q[2] \in {3, 5} /\ q[3] = <<>>
       \/ q[1] = 1 /\ q[2] = 5
       \/ q[1] >= 1 /\ q[2] = 3 /\ q[3] = << <<"E">> >>
       \/ q[1] = 0 /\ q[2] = 5 /\ q[3] = <<>>
       \/ q[1] = 1 /\ q[2] \in {0, 101} /\ q[3] = <<>>}

\* the calls of get_users_list made on the service itself, with pages and
\* sizes of every sign
InEngineQueries ==
    { <<0, 3, <<>>>>, <<-1, 2, <<>>>>, <<1, -1, <<>>>>, <<2, -1, <<>>>>,
      <<0, -2, <<>>>>, <<1, 0, <<>>>>, <<0, 0, <<>>>>, <<-1, -2, <<>>>>,
      <<1, 101, <<>>>>, <<2, 3, <<>>>>,
      <<-1, 2, << <<"E">> >> >>, <<1, -1, << <<"E">> >> >> }

----------------------------------------------------------------------------
(* str *)

Whitespace == {" ", "\t", "\n", "\r"}

RECURSIVE LStrip(_)
LStrip(s) ==
    IF s # <<>> /\ Head(s) \in Whitespace THEN LStrip(Tail(s)) ELSE s

RECURSIVE RStrip(_)
RStrip(s) ==
    IF s # <<>> /\ s[Len(s)] \in Whitespace
    THEN RStrip(SubSeq(s, 1, Len(s) - 1))
    ELSE s

\* str.strip()
Strip(s) == RStrip(LStrip(s))

\* only `not s` is tested
IsMissing_EmptyOnly(s) == Len(s) = 0

\* `not s or s.strip() == ""`
IsMissing(s) == Len(s) = 0 \/ Strip(s) = <<>>

\* the lower-case form of each upper-case letter
UpperToLower ==
    [c \in {"A", "B", "C", "D", "E", "F", "G", "H", "I", "J", "K", "L", "M",
             "N", "O", "P", "Q", "R", "S", "T", "U", "V", "W", "X", "Y", "Z"}
       |-> CASE c = "A" -> "a" [] c = "B" -> "b" [] c = "C" -> "c"
             [] c = "D" -> "d" [] c = "E" -> "e" [] c = "F" -> "f"
             [] c = "G" -> "g" [] c = "H" -> "h" [] c = "I" -> "i"
             [] c = "J" -> "j" [] c = "K" -> "k" [] c = "L" -> "l"
             [] c = "M" -> "m" [] c = "N" -> "n" [] c = "O" -> "o"
             [] c = "P" -> "p" [] c = "Q" -> "q" [] c = "R" -> "r"
             [] c = "S" -> "s" [] c = "T" -> "t" [] c = "U" -> "u"
             [] c = "V" -> "v" [] c = "W" -> "w" [] c = "X" -> "x"
             [] c = "Y" -> "y" [] c = "Z" -> "z"]

LowerChar(c) == IF c \in DOMAIN UpperToLower THEN UpperToLower[c] ELSE c

\* str.lower()
Lower(s) == [i \in 1 .. Len(s) |-> LowerChar(s[i])]

\* `needle in hay`
Contains(needle, hay) ==
    LET n == needle
        h == hay
    IN  \E k \in 0 .. Len(h) - Len(n) :
          \A i \in 1 .. Len(n) : h[k + i] = n[i]

----------------------------------------------------------------------------
(* list *)

\* an index of a slice, brought into 0 .. n as Python does
SliceIndex(i, n) ==
    IF i < 0 THEN (IF i + n < 0 THEN 0 ELSE i + n)
    ELSE IF i > n THEN n ELSE i

\* s[start:stop]
PySlice(s, start, stop) ==
    LET lo == SliceIndex(start, Len(s))
        hi == SliceIndex(stop, Len(s))
    IN  IF lo >= hi THEN <<>> ELSE SubSeq(s, lo + 1, hi)

----------------------------------------------------------------------------
(* dict *)

Keys(d) == {d[i].key : i \in DOMAIN d}

\* d.values(), in iteration order
Values(d) == [i \in DOMAIN d |-> d[i].user]

\* d[k] for k in d
DictGet(d, k) == d[CHOOSE i \in DOMAIN d : d[i].key = k].user

\* the key written goes last, also when it was there before
DictSet_MoveToEnd(d, k, v) ==
    Append(SelectSeq(d, LAMBDA e : e.key # k), [key |-> k, user |-> v])

\* d[k] = v: an existing key keeps its position, a new key goes last
DictSet(d, k, v) ==
    IF k \in Keys(d)
    THEN [i \in DOMAIN d |->
            IF d[i].key = k THEN [key |-> k, user |-> v] ELSE d[i]]
    ELSE Append(d, [key |-> k, user |-> v])

\* nothing is removed
DictDelKeeps_All(e, k) == TRUE

\* the records after the deleted one go with it
DictDelKeeps_Before(e, k) == e.key < k

DictDelKeeps(e, k) == e.key # k

\* del d[k]
DictDel(d, k) == SelectSeq(d, LAMBDA e : DictDelKeeps(e, k))

----------------------------------------------------------------------------
(* models.py *)

User(id, username, email, password) ==
    [id |-> id, username |-> username, email |-> email,
     password |-> password]

UserDataRequired == {"id", "username", "email"}

\* UserData(**f): every field is required; a missing one makes the
\* constructor raise pydantic's ValidationError, a ValueError
UserData(f) ==
    IF UserDataRequired \subseteq DOMAIN f
    THEN [ok |-> TRUE,
          value |-> [n \in UserDataRequired |-> f[n]]]
    ELSE [ok |-> FALSE, value |-> <<>>]

BAD_REQUEST == 400
NOT_FOUND == 404
SUCCESS == 200
INTERNAL_ERROR == 500

----------------------------------------------------------------------------
(* UserService *)

\* self.users as built by __init__
InitUsers ==
    << [key |-> 1, user |-> User(1, <<"t", "e", "s", "t">>,
            <<"t", "@", "x", ".", "c", "o", "m">>,
            <<"1", "2", "3", "4", "5", "6">>)],
       [key |-> 2, user |-> User(2, <<"j", "o", "h", "n", "_", "d", "o", "e">>,
            <<"j", "o", "h", "n", "@", "e", "x", "a", "m", "p", "l", "e",
              ".", "c", "o", "m">>,
            <<"p", "a", "s", "s", "w", "o", "r", "d", "1", "2", "3">>)],
       [key |-> 3, user |-> User(3,
            <<"j", "a", "n", "e", "_", "s", "m", "i", "t", "h">>,
            <<"j", "a", "n", "e", "@", "e", "x", "a", "m", "p", "l", "e",
              ".", "c", "o", "m">>,
            <<"s", "e", "c", "u", "r", "e", "p", "a", "s", "s">>)],
       [key |-> 4, user |-> User(4, <<"a", "d", "m", "i", "n">>,
            <<"a", "d", "m", "i", "n", "@", "c", "o", "m", "p", "a", "n",
              "y", ".", "c", "o", "m">>,
            <<"a", "d", "m", "i", "n", "1", "2", "3">>)],
       [key |-> 5, user |-> User(5,
            <<"d", "e", "m", "o", "_", "u", "s", "e", "r">>,
            <<"d", "e", "m", "o", "@", "t", "e", "s", "t", ".", "c", "o",
              "m">>,
            <<"d", "e", "m", "o", "1", "2", "3">>)] >>

InitNextId == 6

\* self.users as rebuilt by reset_test_data
ResetUsers ==
    << [key |-> 1, user |-> User(1, <<"t", "e", "s", "t">>,
            <<"t", "@", "x", ".", "c", "o", "m">>,
            <<"1", "2", "3", "4", "5", "6">>)],
       [key |-> 2, user |-> User(2, <<"j", "o", "h", "n", "_", "d", "o", "e">>,
            <<"j", "o", "h", "n", "@", "e", "x", "a", "m", "p", "l", "e",
              ".", "c", "o", "m">>,
            <<"p", "a", "s", "s", "w", "o", "r", "d", "1", "2", "3">>)],
       [key |-> 3, user |-> User(3,
            <<"j", "a", "n", "e", "_", "s", "m", "i", "t", "h">>,
            <<"j", "a", "n", "e", "@", "e", "x", "a", "m", "p", "l", "e",
              ".", "c", "o", "m">>,
            <<"s", "e", "c", "u", "r", "e", "p", "a", "s", "s">>)],
       [key |-> 4, user |-> User(4, <<"a", "d", "m", "i", "n">>,
            <<"a", "d", "m", "i", "n", "@", "c", "o", "m", "p", "a", "n",
              "y", ".", "c", "o", "m">>,
            <<"a", "d", "m", "i", "n", "1", "2", "3">>)],
       [key |-> 5, user |-> User(5,
            <<"d", "e", "m", "o", "_", "u", "s", "e", "r">>,
            <<"d", "e", "m", "o", "@", "t", "e", "s", "t", ".", "c", "o",
              "m">>,
            <<"d", "e", "m", "o", "1", "2", "3">>)] >>

ResetNextId == 6

MinPasswordLen == 6

\* what a call leaves behind: the service's state, and either a return
\* value or the class and message of the exception it raised; every raise
\* of the service is a ValueError, pydantic's ValidationError included
Return(us, nid, v) ==
    [users |-> us, next_id |-> nid, raised |-> FALSE, exc |-> "",
     msg |-> "", ret |-> v]

Raise(us, nid, m) ==
    [users |-> us, next_id |-> nid, raised |-> TRUE, exc |-> "ValueError",
     msg |-> m, ret |-> <<>>]

\* the scan stops before the last record
UsernameExists_SkipLast(us, username) ==
    \E i \in 1 .. Len(us) - 1 : Values(us)[i].username = username

\* the scan starts after the first record
UsernameExists_SkipFirst(us, username) ==
    \E i \in 2 .. Len(us) : Values(us)[i].username = username

\* the usernames of the seed stay taken after their records are deleted
UsernameExists_SeedToo(us, username) ==
    \/ \E i \in DOMAIN us : Values(us)[i].username = username
    \/ \E i \in DOMAIN InitUsers : Values(InitUsers)[i].username = username

UsernameExists(us, username) ==
    \E i \in DOMAIN us : Values(us)[i].username = username

\* the scan stops before the last record
EmailExists_SkipLast(us, email) ==
    \E i \in 1 .. Len(us) - 1 : Values(us)[i].email = email

EmailExists(us, email) ==
    \E i \in DOMAIN us : Values(us)[i].email = email

PasswordTooShort(password) == Len(password) < MinPasswordLen

\* the uniqueness checks run before the password checks
create_user_error_UniqueFirst(us, username, email, password) ==
    IF IsMissing(username) THEN "Username is required"
    ELSE IF IsMissing(email) THEN "Email is required"
    ELSE IF UsernameExists(us, username) THEN "Username already exists"
    ELSE IF EmailExists(us, email) THEN "Email already exists"
    ELSE IF IsMissing(password) THEN "Password is required"
    ELSE IF PasswordTooShort(password)
    THEN "Password must be at least 6 characters long"
    ELSE ""

\* the checks of create_user in their order: the message of the first one
\* that fails, "" when all pass
create_user_error(us, username, email, password) ==
    IF IsMissing(username) THEN "Username is required"
    ELSE IF IsMissing(email) THEN "Email is required"
    ELSE IF IsMissing(password) THEN "Password is required"
    ELSE IF PasswordTooShort(password)
    THEN "Password must be at least 6 characters long"
    ELSE IF UsernameExists(us, username) THEN "Username already exists"
    ELSE IF EmailExists(us, email) THEN "Email already exists"
    ELSE ""

\* the new id is taken from the number of live records
create_user_IdFromCount(us, nid, username, email, password) ==
    LET err == create_user_error(us, username, email, password)
    IN  IF err # "" THEN Raise(us, nid, err)
        ELSE
          LET new_user == User(Len(us) + 1, username, email, password)
              us2 == DictSet(us, Len(us) + 1, new_user)
              nid2 == nid + 1
              data == UserData([id |-> new_user.id,
                                username |-> new_user.username])
          IN  IF data.ok
              THEN Return(us2, nid2, data.value)
              ELSE Raise(us2, nid2, "validation error for UserData")

\* the arguments are trimmed before they are stored
create_user_Trims(us, nid, username, email, password) ==
    LET err == create_user_error(us, username, email, password)
    IN  IF err # "" THEN Raise(us, nid, err)
        ELSE
          LET new_user == User(nid, Strip(username), Strip(email),
                               Strip(password))
              us2 == DictSet(us, nid, new_user)
              nid2 == nid + 1
              data == UserData([id |-> new_user.id,
                                username |-> new_user.username])
          IN  IF data.ok
              THEN Return(us2, nid2, data.value)
              ELSE Raise(us2, nid2, "validation error for UserData")

\* the counter is left where it was
create_user_NoIncrement(us, nid, username, email, password) ==
    LET err == create_user_error(us, username, email, password)
    IN  IF err # "" THEN Raise(us, nid, err)
        ELSE
          LET new_user == User(nid, username, email, password)
              us2 == DictSet(us, nid, new_user)
              data == UserData([id |-> new_user.id,
                                username |-> new_user.username])
          IN  IF data.ok
              THEN Return(us2, nid, data.value)
              ELSE Raise(us2, nid, "validation error for UserData")

create_user(us, nid, username, email, password) ==
    LET err == create_user_error(us, username, email, password)
    IN  IF err # "" THEN Raise(us, nid, err)
        ELSE
          LET new_user == User(nid, username, email, password)
              us2 == DictSet(us, nid, new_user)
              nid2 == nid + 1
              data == UserData([id |-> new_user.id,
                                username |-> new_user.username])
          IN  IF data.ok
              THEN Return(us2, nid2, data.value)
              ELSE Raise(us2, nid2, "validation error for UserData")

\* the record is taken out of the dict as it is read
get_user_by_id_Pop(us, nid, user_id) ==
    IF user_id \notin Keys(us) THEN Raise(us, nid, "User not found")
    ELSE
      LET user == DictGet(us, user_id)
          data == UserData([id |-> user.id, username |-> user.username,
                            email |-> user.email])
      IN  IF data.ok
          THEN Return(DictDel(us, user_id), nid, data.value)
          ELSE Raise(DictDel(us, user_id), nid,
                     "validation error for UserData")

\* the username is returned in the email field
get_user_by_id_EmailSlip(us, nid, user_id) ==
    IF user_id \notin Keys(us) THEN Raise(us, nid, "User not found")
    ELSE
      LET user == DictGet(us, user_id)
          data == UserData([id |-> user.id, username |-> user.username,
                            email |-> user.username])
      IN  IF data.ok
          THEN Return(us, nid, data.value)
          ELSE Raise(us, nid, "validation error for UserData")

get_user_by_id(us, nid, user_id) ==
    IF user_id \notin Keys(us) THEN Raise(us, nid, "User not found")
    ELSE
      LET user == DictGet(us, user_id)
          data == UserData([id |-> user.id, username |-> user.username,
                            email |-> user.email])
      IN  IF data.ok
          THEN Return(us, nid, data.value)
          ELSE Raise(us, nid, "validation error for UserData")

\* the scan looks at the seed records only
EmailExistsForOther_SeedOnly(us, user_id, email) ==
    \E i \in DOMAIN us :
      us[i].key # user_id /\ us[i].key < InitNextId /\ us[i].user.email = email

\* the target record is scanned with the others
EmailExistsForOther_Self(us, user_id, email) ==
    \E i \in DOMAIN us : us[i].user.email = email

EmailExistsForOther(us, user_id, email) ==
    \E i \in DOMAIN us : us[i].key # user_id /\ us[i].user.email = email

\* the email is written before the other records are scanned
update_user_email_WriteFirst(us, nid, user_id, email) ==
    IF user_id \notin Keys(us) THEN Raise(us, nid, "User not found")
    ELSE
      LET user == DictGet(us, user_id)
          us2 == DictSet(us, user_id, [user EXCEPT !.email = email])
      IN  IF EmailExistsForOther(us2, user_id, email)
          THEN Raise(us2, nid, "Email already exists")
          ELSE Return(us2, nid, <<>>)

\* the new address is written to the username
update_user_email_WrongField(us, nid, user_id, email) ==
    IF user_id \notin Keys(us) THEN Raise(us, nid, "User not found")
    ELSE IF EmailExistsForOther(us, user_id, email)
    THEN Raise(us, nid, "Email already exists")
    ELSE
      LET user == DictGet(us, user_id)
      IN  Return(DictSet(us, user_id, [user EXCEPT !.username = email]),
                 nid, <<>>)

update_user_email(us, nid, user_id, email) ==
    IF user_id \notin Keys(us) THEN Raise(us, nid, "User not found")
    ELSE IF EmailExistsForOther(us, user_id, email)
    THEN Raise(us, nid, "Email already exists")
    ELSE
      LET user == DictGet(us, user_id)
      IN  Return(DictSet(us, user_id, [user EXCEPT !.email = email]),
                 nid, <<>>)

\* the deletion gives the counter's latest value back
delete_user_Reclaim(us, nid, user_id) ==
    IF user_id \notin Keys(us) THEN Raise(us, nid, "User not found")
    ELSE Return(DictDel(us, user_id), nid - 1, <<>>)

delete_user(us, nid, user_id) ==
    IF user_id \notin Keys(us) THEN Raise(us, nid, "User not found")
    ELSE Return(DictDel(us, user_id), nid, <<>>)

\* the counter is reset and the records are kept
reset_test_data_KeepsUsers(us, nid) == Return(us, ResetNextId, <<>>)

\* the records are reset and the counter is kept
reset_test_data_KeepsCounter(us, nid) == Return(ResetUsers, nid, <<>>)

reset_test_data(us, nid) == Return(ResetUsers, ResetNextId, <<>>)

\* `if keyword:`
KeywordGiven(keyword) == keyword # <<>> /\ keyword[1] # <<>>

\* the email is not looked at
KeywordMatches_UsernameOnly(user, keyword_lower) ==
    Contains(keyword_lower, Lower(user.username))

\* the condition of the filter, on the lowered keyword
KeywordMatches(user, keyword_lower) ==
    \/ Contains(keyword_lower, Lower(user.username))
    \/ Contains(keyword_lower, Lower(user.email))

\* the pages are counted from 0
StartIndex_FromZero(page, size) == page * size

StartIndex(page, size) == (page - 1) * size

\* the filtered_users of get_users_list
FilterUsers(all_users, keyword) ==
    IF KeywordGiven(keyword)
    THEN SelectSeq(all_users,
           LAMBDA user : KeywordMatches(user, Lower(keyword[1])))
    ELSE all_users

\* the password is put where the email belongs
ToUserData_PasswordSlip(user) ==
    UserData([id |-> user.id, username |-> user.username,
              email |-> user.password])

\* the projection of one record
ToUserData(user) ==
    UserData([id |-> user.id, username |-> user.username,
              email |-> user.email])

\* the user_data_list of get_users_list and what the call returns
ListResult(us, nid, total, data) ==
    IF \A i \in 1 .. Len(data) : data[i].ok
    THEN Return(us, nid,
                [total |-> total,
                 list |-> [i \in 1 .. Len(data) |-> data[i].value]])
    ELSE Raise(us, nid, "validation error for UserData")

\* the slice takes one record more than size
Paginate_OneMore(us, nid, filtered_users, page, size) ==
    LET total == Len(filtered_users)
        start_index == StartIndex(page, size)
        end_index == start_index + size + 1
    IN  ListResult(us, nid, total,
          [i \in 1 .. Len(PySlice(filtered_users, start_index, end_index))
             |-> ToUserData(filtered_users[SliceIndex(start_index,
                                             Len(filtered_users)) + i])])

\* the pagination of get_users_list
Paginate(us, nid, filtered_users, page, size) ==
    LET total == Len(filtered_users)
        start_index == StartIndex(page, size)
        end_index == start_index + size
    IN  ListResult(us, nid, total,
          [i \in 1 .. Len(PySlice(filtered_users, start_index, end_index))
             |-> ToUserData(filtered_users[SliceIndex(start_index,
                                             Len(filtered_users)) + i])])

get_users_list(us, nid, page, size, keyword) ==
    Paginate(us, nid, FilterUsers(Values(us), keyword), page, size)

----------------------------------------------------------------------------
(* routers/user_router.py: what a handler answers *)

\* the id is looked up before the body is checked
router_update_user_email_IdFirst(us, nid, user_id, email) ==
    IF user_id \notin Keys(us) THEN Raise(us, nid, "User not found")
    ELSE IF email = <<>> THEN Raise(us, nid, "Email is required for update")
    ELSE update_user_email(us, nid, user_id, email[1])

\* the handler of PUT /users/{user_id}: the body's email field is checked
\* inside the try block, before the service is called
router_update_user_email(us, nid, user_id, email) ==
    IF email = <<>> THEN Raise(us, nid, "Email is required for update")
    ELSE update_user_email(us, nid, user_id, email[1])

PageMin == 1

SizeMin == 1

SizeMax == 100

\* the upper limit of size is not checked
QueryValid_NoUpper(page, size) == page >= PageMin /\ size >= SizeMin

\* Query(1, ge=1) for page and Query(10, ge=1, le=100) for size
QueryValid(page, size) ==
    page >= PageMin /\ size >= SizeMin /\ size <= SizeMax

\* the handler of GET /users behind the validation of its parameters: a
\* page or size out of range raises RequestValidationError before the
\* handler's body, and with it the service, is run
batch_query_users(us, nid, page, size, keyword) ==
    IF QueryValid(page, size)
    THEN get_users_list(us, nid, page, size, keyword)
    ELSE [users |-> us, next_id |-> nid, raised |-> TRUE,
          exc |-> "RequestValidationError",
          msg |-> "Validation error: Invalid request data", ret |-> <<>>]

create_user_status(o) ==
    IF ~o.raised THEN SUCCESS
    ELSE IF o.exc = "ValueError" THEN BAD_REQUEST
    ELSE INTERNAL_ERROR

get_user_details_status(o) ==
    IF ~o.raised THEN SUCCESS
    ELSE IF o.exc = "ValueError" THEN NOT_FOUND
    ELSE INTERNAL_ERROR

\* `"User not found" in str(e)`: of the messages that reach the handler
\* only "User not found" itself holds that text
update_user_email_status(o) ==
    IF ~o.raised THEN SUCCESS
    ELSE IF o.exc = "ValueError"
    THEN (IF o.msg = "User not found" THEN NOT_FOUND ELSE BAD_REQUEST)
    ELSE INTERNAL_ERROR

delete_user_status(o) ==
    IF ~o.raised THEN SUCCESS
    ELSE IF o.exc = "ValueError" THEN NOT_FOUND
    ELSE INTERNAL_ERROR

\* validation_exception_handler of main.py answers the
\* RequestValidationError, the handler's `except Exception` the rest
batch_query_users_status(o) ==
    IF ~o.raised THEN SUCCESS
    ELSE IF o.exc = "RequestValidationError" THEN BAD_REQUEST
    ELSE INTERNAL_ERROR

reset_test_data_status(o) ==
    IF ~o.raised THEN SUCCESS ELSE INTERNAL_ERROR

\* the ApiResponse a handler builds; data is <<>> for null
ApiResponse(code, data, msg) == [code |-> code, data |-> data, msg |-> msg]

create_user_body(o) ==
    IF ~o.raised THEN ApiResponse(SUCCESS, o.ret, "success")
    ELSE IF o.exc = "ValueError" THEN ApiResponse(BAD_REQUEST, <<>>, o.msg)
    ELSE ApiResponse(INTERNAL_ERROR, <<>>, "Internal server error")

get_user_details_body(o) ==
    IF ~o.raised THEN ApiResponse(SUCCESS, o.ret, "success")
    ELSE IF o.exc = "ValueError" THEN ApiResponse(NOT_FOUND, <<>>, o.msg)
    ELSE ApiResponse(INTERNAL_ERROR, <<>>, "Internal server error")

update_user_email_body(o) ==
    IF ~o.raised THEN ApiResponse(SUCCESS, <<>>, "success")
    ELSE IF o.exc = "ValueError"
    THEN (IF o.msg = "User not found"
          THEN ApiResponse(NOT_FOUND, <<>>, o.msg)
          ELSE ApiResponse(BAD_REQUEST, <<>>, o.msg))
    ELSE ApiResponse(INTERNAL_ERROR, <<>>, "Internal server error")

delete_user_body(o) ==
    IF ~o.raised THEN ApiResponse(SUCCESS, <<>>, "success")
    ELSE IF o.exc = "ValueError" THEN ApiResponse(NOT_FOUND, <<>>, o.msg)
    ELSE ApiResponse(INTERNAL_ERROR, <<>>, "Internal server error")

batch_query_users_body(o) ==
    IF ~o.raised THEN ApiResponse(SUCCESS, o.ret, "success")
    ELSE IF o.exc = "RequestValidationError"
    THEN ApiResponse(BAD_REQUEST, <<>>, o.msg)
    ELSE ApiResponse(INTERNAL_ERROR, <<>>, "Internal server error")

reset_test_data_body(o) ==
    IF ~o.raised
    THEN ApiResponse(SUCCESS, <<>>, "Test data reset successfully")
    ELSE ApiResponse(INTERNAL_ERROR, <<>>, "Internal server error")

----------------------------------------------------------------------------
(* The service as a state machine *)

Init ==
    /\ users = InitUsers
    /\ next_id = InitNextId
    /\ last = [op |-> "init"]
    /\ assigned = Keys(InitUsers)
    /\ deleted = {}
    /\ issued = Keys(InitUsers)
    /\ freed = {}
    /\ inflight = [c \in InConns |-> NoRequest]

\* the engine's state after a call
Apply(o) ==
    /\ users' = o.users
    /\ next_id' = o.next_id

\* the keys under which a call stored a record
StoredKeys(old, new) ==
    {new[i].key : i \in {j \in DOMAIN new :
                            \A k \in DOMAIN old : old[k] # new[j]}}

\* the keys a call removed
RemovedKeys(old, new) == Keys(old) \ Keys(new)

\* the handler of POST /users
CreateCall(username, email, password) ==
      \E o \in {create_user(users, next_id, username, email, password)} :
          /\ o.next_id <= MaxNextId
          /\ Apply(o)
          /\ last' = [op |-> "create", username |-> username,
                      email |-> email, password |-> password,
                      raised |-> o.raised, msg |-> o.msg, ret |-> o.ret,
                      status |-> create_user_status(o),
                      body |-> create_user_body(o),
                      new_ids |-> StoredKeys(users, o.users)]
          /\ assigned' = assigned \cup StoredKeys(users, o.users)
          /\ issued' = issued \cup StoredKeys(users, o.users)
          /\ UNCHANGED <<deleted, freed>>

Create ==
    \E username \in InUsernames, email \in InEmails,
       password \in InPasswords :
      /\ CreateCall(username, email, password)
      /\ UNCHANGED inflight

\* the handler of GET /users/{user_id}
GetCall(user_id) ==
      \E o \in {get_user_by_id(users, next_id, user_id)} :
          /\ Apply(o)
          /\ last' = [op |-> "get", user_id |-> user_id,
                      raised |-> o.raised, msg |-> o.msg, ret |-> o.ret,
                      status |-> get_user_details_status(o),
                      body |-> get_user_details_body(o)]
          /\ UNCHANGED <<assigned, deleted, issued, freed>>

Get ==
    \E user_id \in InUserIds :
      /\ GetCall(user_id)
      /\ UNCHANGED inflight

\* the handler of PUT /users/{user_id}
UpdateEmailCall(user_id, body_email) ==
      \E o \in {router_update_user_email(users, next_id, user_id, body_email)} :
          /\ Apply(o)
          /\ last' = [op |-> "updateEmail", user_id |-> user_id,
                      email_given |-> body_email # <<>>,
                      email |-> IF body_email # <<>> THEN body_email[1]
                                ELSE <<>>,
                      raised |-> o.raised, msg |-> o.msg, ret |-> o.ret,
                      status |-> update_user_email_status(o),
                      body |-> update_user_email_body(o)]
          /\ UNCHANGED <<assigned, deleted, issued, freed>>

UpdateEmail ==
    \E user_id \in InUserIds, body_email \in InBodyEmails :
      /\ UpdateEmailCall(user_id, body_email)
      /\ UNCHANGED inflight

\* the handler of DELETE /users/{user_id}
DeleteCall(user_id) ==
      \E o \in {delete_user(users, next_id, user_id)} :
          /\ Apply(o)
          /\ last' = [op |-> "delete", user_id |-> user_id,
                      raised |-> o.raised, msg |-> o.msg, ret |-> o.ret,
                      status |-> delete_user_status(o),
                      body |-> delete_user_body(o)]
          /\ deleted' = deleted \cup RemovedKeys(users, o.users)
          /\ freed' = freed \cup RemovedKeys(users, o.users)
          /\ UNCHANGED <<assigned, issued>>

Delete ==
    \E user_id \in InUserIds :
      /\ DeleteCall(user_id)
      /\ UNCHANGED inflight

\* the handler of GET /users
ListCall(page, size, keyword) ==
      \E o \in {batch_query_users(users, next_id, page, size, keyword)} :
          /\ Apply(o)
          /\ last' = [op |-> "list", page |-> page, size |-> size,
                      keyword |-> keyword,
                      raised |-> o.raised, msg |-> o.msg,
                      status |-> batch_query_users_status(o),
                      body |-> batch_query_users_body(o)]
          /\ UNCHANGED <<assigned, deleted, issued, freed>>

List ==
    \E q \in InQueries :
      /\ ListCall(q[1], q[2], q[3])
      /\ UNCHANGED inflight

\* the handler of POST /users/reset
ResetCall ==
    \E o \in {reset_test_data(users, next_id)} :
        /\ Apply(o)
        /\ last' = [op |-> "reset", raised |-> o.raised, msg |-> o.msg,
                    ret |-> o.ret, status |-> reset_test_data_status(o),
                    body |-> reset_test_data_body(o)]
        /\ assigned' = assigned \cup Keys(o.users)
        /\ issued' = Keys(o.users)
        /\ freed' = {}
        /\ UNCHANGED deleted

Reset == ResetCall /\ UNCHANGED inflight

Next == Create \/ Get \/ UpdateEmail \/ Delete \/ List \/ Reset

Spec == Init /\ [][Next]_vars

\* the same service when reset is never called
NextNoReset == Create \/ Get \/ UpdateEmail \/ Delete \/ List

SpecNoReset == Init /\ [][NextNoReset]_vars

\* a call of get_users_list on the service itself, not through the router
ListEngine ==
    \E q \in InEngineQueries :
      \E o \in {get_users_list(users, next_id, q[1], q[2], q[3])} :
          /\ Apply(o)
          /\ last' = [op |-> "get_users_list", page |-> q[1],
                      size |-> q[2], keyword |-> q[3],
                      raised |-> o.raised, msg |-> o.msg, ret |-> o.ret]
          /\ UNCHANGED <<assigned, deleted, issued, freed, inflight>>

\* the service with its callers: the router and direct calls of the list
NextEngine ==
    \/ Create
    \/ Get
    \/ UpdateEmail
    \/ Delete
    \/ List
    \/ Reset
    \/ ListEngine

SpecEngine == Init /\ [][NextEngine]_vars

\* creates whose arguments are blank, or begin or end with whitespace
CreatePadded ==
    \E username \in InPaddedUsernames, email \in InPaddedEmails,
       password \in InPaddedPasswords :
      /\ CreateCall(username, email, password)
      /\ UNCHANGED inflight

NextPadded == CreatePadded \/ Get \/ Delete

SpecPadded == Init /\ [][NextPadded]_vars

\* The service behind the event loop.  Every handler of the router is an
\* `async def` whose body has no await: once the loop starts it, it runs to
\* its return before the loop starts another, in whatever order the loop
\* picks among the requests in flight.

\* a request comes in on a free connection
Arrive ==
    \E c \in InConns, r \in InRequests :
      /\ inflight[c].op = "none"
      /\ inflight' = [inflight EXCEPT ![c] = r]
      /\ UNCHANGED <<users, next_id, last, assigned, deleted, issued, freed>>

\* the connection's request has been answered
Answered(c) == inflight' = [inflight EXCEPT ![c] = NoRequest]

HandleCreate ==
    \E c \in InConns :
      /\ inflight[c].op = "create"
      /\ CreateCall(inflight[c].username, inflight[c].email,
                    inflight[c].password)
      /\ Answered(c)

HandleGet ==
    \E c \in InConns :
      /\ inflight[c].op = "get"
      /\ GetCall(inflight[c].user_id)
      /\ Answered(c)

HandleUpdateEmail ==
    \E c \in InConns :
      /\ inflight[c].op = "updateEmail"
      /\ UpdateEmailCall(inflight[c].user_id, inflight[c].email)
      /\ Answered(c)

HandleDelete ==
    \E c \in InConns :
      /\ inflight[c].op = "delete"
      /\ DeleteCall(inflight[c].user_id)
      /\ Answered(c)

HandleList ==
    \E c \in InConns :
      /\ inflight[c].op = "list"
      /\ ListCall(inflight[c].page, inflight[c].size, inflight[c].keyword)
      /\ Answered(c)

HandleReset ==
    \E c \in InConns :
      /\ inflight[c].op = "reset"
      /\ ResetCall
      /\ Answered(c)

NextConcurrent ==
    \/ Arrive
    \/ HandleCreate
    \/ HandleGet
    \/ HandleUpdateEmail
    \/ HandleDelete
    \/ HandleList
    \/ HandleReset

SpecConcurrent == Init /\ [][NextConcurrent]_vars

----------------------------------------------------------------------------
(* Properties *)

S_test == <<"t", "e", "s", "t">>
S_Test == <<"T", "e", "s", "t">>
S_bob == <<"b", "o", "b">>
S_t_x_com == <<"t", "@", "x", ".", "c", "o", "m">>
S_T_x_com == <<"T", "@", "x", ".", "c", "o", "m">>
S_bob_x_com == <<"b", "o", "b", "@", "x", ".", "c", "o", "m">>
S_123 == <<"1", "2", "3">>
S_secret == <<"s", "e", "c", "r", "e", "t">>

\* a string with no character other than whitespace (the empty one too)
Blank(s) == \A i \in 1 .. Len(s) : s[i] \in Whitespace

\* some live record of us has this username / this email
UsernameLive(us, username) ==
    \E i \in 1 .. Len(us) : us[i].user.username = username

EmailLive(us, email) ==
    \E i \in 1 .. Len(us) : us[i].user.email = email

\* C1: in every reachable state no two live records have the same username,
\* compared exactly and case-sensitively.
C1_UsernameUnique ==
    \A i, j \in 1 .. Len(users) :
      i # j => users[i].user.username # users[j].user.username

\* a create repeating the username of a record created earlier was turned
\* away, and "Test" lives next to "test"
C1_Witness ==
    /\ last.op = "create"
    /\ last.msg = "Username already exists"
    /\ last.username = S_Test
    /\ UsernameLive(users, S_test)
    /\ Len(users) > 5

\* C2: in every reachable state no two live records have the same email,
\* compared exactly and case-sensitively; neither create nor updateEmail
\* brings in a second record with an email a live record holds.
C2_EmailUnique ==
    \A i, j \in 1 .. Len(users) :
      i # j => users[i].user.email # users[j].user.email

\* an updateEmail to the address of a created record was turned away while
\* a case variant of the seed's address is live as well
C2_Witness ==
    /\ last.op = "updateEmail"
    /\ last.msg = "Email already exists"
    /\ last.email = S_bob_x_com
    /\ EmailLive(users, S_T_x_com)
    /\ Len(users) > 5

\* the arguments of a create pass every check of the claim: none is blank,
\* the password has 6 characters or more, no live record of us collides
CreateInputValid(us, username, email, password) ==
    /\ ~Blank(username) /\ ~Blank(email) /\ ~Blank(password)
    /\ Len(password) >= 6
    /\ ~UsernameLive(us, username)
    /\ ~EmailLive(us, email)

\* C3: a create with valid arguments, a password of 6 characters or more
\* and no collision succeeds, returns an id greater than every id assigned
\* before, and a get of that id right afterwards returns the same username
\* and email.
C3_CreateSucceeds ==
    [][(/\ last'.op = "create"
        /\ CreateInputValid(users, last'.username, last'.email,
                            last'.password))
       => /\ ~last'.raised
          /\ \A a \in issued : last'.ret.id > a
          /\ LET g == get_user_by_id(users', next_id', last'.ret.id)
             IN  /\ ~g.raised
                 /\ g.ret.username = last'.username
                 /\ g.ret.email = last'.email]_vars

\* C4: a call that reports an error leaves the record map and the next-id
\* counter as they were before the call.
C4_ErrorLeavesState ==
    [][(/\ last'.op \in {"create", "get", "updateEmail", "delete"}
        /\ last'.raised)
       => /\ users' = users
          /\ next_id' = next_id]_vars

\* C5: without reset, every create that stores a record gives it an id
\* greater than the id given by every earlier create, deleted since or not.
C5_IdsIncrease ==
    [][last'.op = "create"
       => \A n \in last'.new_ids : \A a \in assigned : n > a]_vars

\* id 6 was created and deleted, and a later create was given 7
C5_Witness ==
    /\ last.op = "create"
    /\ last.new_ids = {7}
    /\ 6 \in deleted
    /\ 6 \notin Keys(users)

\* C6 as stated: over create, updateEmail, delete and reset, no create is
\* given an id that a record (seed or created) was given earlier in the run.
C6_NeverReused ==
    [][last'.op = "create" => last'.new_ids \cap assigned = {}]_vars

\* C6 as amended: no create is given an id that a record (seed or created)
\* was given since the latest reset, or since the start when there was none.
C6_NotReusedSinceReset ==
    [][last'.op = "create" => last'.new_ids \cap issued = {}]_vars

\* a create after a reset was given the id of a record deleted before it
C6_Witness ==
    /\ last.op = "create"
    /\ last.new_ids # {}
    /\ last.new_ids \subseteq deleted
    /\ freed = {}

\* the message the claimed order of checks gives, "" when none fails
ExpectedCreateError(us, username, email, password) ==
    CASE Blank(username) -> "Username is required"
      [] ~Blank(username) /\ Blank(email) -> "Email is required"
      [] ~Blank(username) /\ ~Blank(email) /\ Blank(password)
           -> "Password is required"
      [] ~Blank(username) /\ ~Blank(email) /\ ~Blank(password)
           /\ Len(password) < 6
           -> "Password must be at least 6 characters long"
      [] ~Blank(username) /\ ~Blank(email) /\ ~Blank(password)
           /\ Len(password) >= 6 /\ UsernameLive(us, username)
           -> "Username already exists"
      [] ~Blank(username) /\ ~Blank(email) /\ ~Blank(password)
           /\ Len(password) >= 6 /\ ~UsernameLive(us, username)
           /\ EmailLive(us, email)
           -> "Email already exists"
      [] OTHER -> ""

\* C7: create reports the first failure only, in the order username
\* missing, email missing, password missing, password shorter than 6,
\* username taken, email taken; a short password is reported even when the
\* username or the email collides with a live record.
C7_ValidationOrder ==
    [][last'.op = "create"
       => LET m == ExpectedCreateError(users, last'.username, last'.email,
                                       last'.password)
          IN  m # "" => last'.raised /\ last'.msg = m]_vars

\* a create with a short password and the username and email of a live
\* record was answered with the password message
C7_Witness ==
    /\ last.op = "create"
    /\ last.msg = "Password must be at least 6 characters long"
    /\ UsernameLive(users, last.username)
    /\ EmailLive(users, last.email)

\* C8 as stated: a create with the username of a live record fails with 400
\* and 'Username already exists' whatever the email and password, and
\* stores nothing.
C8_DuplicateUsernameConflict ==
    [][(last'.op = "create" /\ UsernameLive(users, last'.username))
       => /\ last'.raised
          /\ last'.status = 400
          /\ last'.msg = "Username already exists"
          /\ users' = users]_vars

\* C8 as amended: a create with the username of a live record fails with
\* 400 and stores nothing whatever the email and password; its message is
\* 'Username already exists' when the email is not missing and the password
\* is not missing and has 6 characters or more, and the message of the
\* earlier check that failed otherwise.
C8_DuplicateUsernameRejected ==
    [][(last'.op = "create" /\ UsernameLive(users, last'.username))
       => /\ last'.raised
          /\ last'.status = 400
          /\ users' = users
          /\ (last'.msg = "Username already exists"
                <=> (/\ ~Blank(last'.email)
                     /\ ~Blank(last'.password)
                     /\ Len(last'.password) >= 6))]_vars

\* a create with the seed username "test" and a fresh email was turned away
C8_Witness ==
    /\ last.op = "create"
    /\ last.username = S_test
    /\ last.email = S_bob_x_com
    /\ last.password = S_secret
    /\ last.status = 400
    /\ last.msg = "Username already exists"

\* C9: reset always succeeds and leaves exactly the five seed records of
\* the start, ids 1 to 5, and the counter at 6, whatever came before.
C9_ResetRestoresSeed ==
    last.op = "reset"
      => /\ ~last.raised
         /\ last.status = 200
         /\ users = InitUsers
         /\ next_id = InitNextId
         /\ Keys(users) = 1 .. 5
         /\ next_id = 6

\* a reset after a seed record was deleted and two records were created
C9_Witness ==
    /\ last.op = "reset"
    /\ 1 \in deleted
    /\ {6, 7} \subseteq assigned

\* a get of user_id in the state (us, nid) is answered 404
GetNotFound(us, nid, user_id) ==
    LET g == get_user_by_id(us, nid, user_id)
    IN  g.raised /\ get_user_details_status(g) = 404

\* C10 as stated: a get right after a successful delete of the same id is
\* answered NotFound (404), and no later create is given a deleted id.
C10_DeletedIdGone ==
    [][/\ (last'.op = "delete" /\ ~last'.raised)
            => GetNotFound(users', next_id', last'.user_id)
       /\ last'.op = "create" => last'.new_ids \cap deleted = {}]_vars

\* C10 as amended: a get right after a successful delete of the same id is
\* answered NotFound (404), and no later create is given the deleted id
\* until a reset; after a reset the counter restarts at 6 and a deleted id
\* of 6 or more is given out again.
C10_DeletedIdGoneUntilReset ==
    [][/\ (last'.op = "delete" /\ ~last'.raised)
            => GetNotFound(users', next_id', last'.user_id)
       /\ last'.op = "create" => last'.new_ids \cap freed = {}]_vars

\* id 6 was deleted since the latest reset and a later create was given 7
C10_Witness ==
    /\ last.op = "create"
    /\ last.new_ids = {7}
    /\ 6 \in freed
    /\ GetNotFound(users, next_id, 6)

\* the record stored under key k
RecordOf(us, k) ==
    us[CHOOSE i \in 1 .. Len(us) : us[i].key = k].user

\* C11: delete fails with NotFound when the id is not live; otherwise it
\* removes the record with that id and nothing else, and leaves the counter.
C11_DeleteFrame ==
    [][last'.op = "delete"
       => IF last'.user_id \notin Keys(users)
          THEN /\ last'.raised
               /\ last'.msg = "User not found"
               /\ last'.status = 404
               /\ users' = users
               /\ next_id' = next_id
          ELSE /\ ~last'.raised
               /\ Keys(users') = Keys(users) \ {last'.user_id}
               /\ Len(users') = Len(users) - 1
               /\ \A k \in Keys(users') :
                    RecordOf(users', k) = RecordOf(users, k)
               /\ next_id' = next_id]_vars

\* seed record 1 was deleted while a created record stays live
C11_Witness ==
    /\ last.op = "delete"
    /\ ~last.raised
    /\ last.user_id = 1
    /\ Keys(users) = {2, 3, 4, 5, 6}

\* C12: get fails with NotFound exactly when the id is not a key of the
\* live collection; otherwise it returns the id, username and email stored
\* for the record at that moment, and no password.
C12_GetProjection ==
    [][last'.op = "get"
       => /\ last'.raised <=> last'.user_id \notin Keys(users)
          /\ last'.raised
               => last'.status = 404 /\ last'.msg = "User not found"
          /\ ~last'.raised
               => /\ last'.status = 200
                  /\ DOMAIN last'.ret = {"id", "username", "email"}
                  /\ last'.ret.id = last'.user_id
                  /\ last'.ret.username
                       = RecordOf(users, last'.user_id).username
                  /\ last'.ret.email
                       = RecordOf(users, last'.user_id).email]_vars

\* a get of seed record 1 returned the address an updateEmail gave it
C12_Witness ==
    /\ last.op = "get"
    /\ ~last.raised
    /\ last.user_id = 1
    /\ last.ret.username = S_test
    /\ last.ret.email = S_T_x_com

\* C13: an updateEmail whose address belongs to another live record fails
\* with Conflict and leaves every record and the counter unchanged.
C13_UpdateConflict ==
    [][(/\ last'.op = "updateEmail"
        /\ last'.email_given
        /\ last'.user_id \in Keys(users)
        /\ \E i \in 1 .. Len(users) :
             /\ users[i].key # last'.user_id
             /\ users[i].user.email = last'.email)
       => /\ last'.raised
          /\ last'.msg = "Email already exists"
          /\ last'.status = 400
          /\ users' = users
          /\ next_id' = next_id]_vars

\* the created record 6 asked for the address of seed record 1
C13_Witness ==
    /\ last.op = "updateEmail"
    /\ last.user_id = 6
    /\ last.email = S_t_x_com
    /\ last.msg = "Email already exists"
    /\ RecordOf(users, 1).email = S_t_x_com

\* C14: a successful updateEmail changes the email of the record with that
\* id and nothing else: a get of the id returns the new email, the record's
\* id, username and password, the other records, the live ids and the
\* counter are unchanged.
C14_UpdateFrame ==
    [][(last'.op = "updateEmail" /\ ~last'.raised)
       => /\ LET g == get_user_by_id(users', next_id', last'.user_id)
             IN  ~g.raised /\ g.ret.email = last'.email
          /\ Keys(users') = Keys(users)
          /\ Len(users') = Len(users)
          /\ RecordOf(users', last'.user_id)
               = [RecordOf(users, last'.user_id)
                    EXCEPT !.email = last'.email]
          /\ \A k \in Keys(users) \ {last'.user_id} :
               RecordOf(users', k) = RecordOf(users, k)
          /\ next_id' = next_id]_vars

\* the created record 6 was given a new address
C14_Witness ==
    /\ last.op = "updateEmail"
    /\ ~last.raised
    /\ last.user_id = 6
    /\ last.email = S_T_x_com
    /\ RecordOf(users, 6).email = S_T_x_com

\* needle occurs in hay when the case of letters is ignored
ContainsIgnoringCase(needle, hay) ==
    \E k \in 0 .. Len(hay) - Len(needle) :
      \A i \in 1 .. Len(needle) : LowerChar(hay[k + i]) = LowerChar(needle[i])

\* the record passes the keyword filter of list
PassesFilter(user, keyword) ==
    \/ keyword = <<>>
    \/ keyword[1] = <<>>
    \/ ContainsIgnoringCase(keyword[1], user.username)
    \/ ContainsIgnoringCase(keyword[1], user.email)

\* the live records that pass the filter, in storage order
Passing(us, keyword) ==
    SelectSeq([i \in 1 .. Len(us) |-> us[i].user],
              LAMBDA u : PassesFilter(u, keyword))

\* the public view of a record
Projection(u) == [id |-> u.id, username |-> u.username, email |-> u.email]

\* the ids of a list of projections
IdsOf(items) == [i \in 1 .. Len(items) |-> items[i].id]

MinOf(a, b) == IF a < b THEN a ELSE b

MaxOf(a, b) == IF a > b THEN a ELSE b

S_john == <<"j", "o", "h", "n">>
S_john_doe == <<"j", "o", "h", "n", "_", "d", "o", "e">>
S_T_X == <<"T", "@", "X">>

\* C15: for page >= 1 and size in 1..100, list returns as total the number
\* of records passing the filter and as items the filtered records from
\* position (page-1)*size on, size of them at most; an offset beyond the
\* filtered count gives an empty list.  On the seed, page 1 of size 5 holds
\* the five records and page 2 of size 3 holds the records 4 and 5.
C15_Pagination ==
    [][(/\ last'.op = "list"
        /\ last'.page >= 1
        /\ last'.size \in 1 .. 100)
       => /\ ~last'.raised
          /\ last'.status = 200
          /\ \E f \in {Passing(users, last'.keyword)} :
             \E d \in {last'.body.data} :
             \E off \in {(last'.page - 1) * last'.size} :
               /\ d.total = Len(f)
               /\ Len(d.list) = MinOf(last'.size, MaxOf(0, d.total - off))
               /\ \A j \in 1 .. Len(d.list) :
                    d.list[j] = Projection(f[off + j])
               /\ (users = InitUsers /\ last'.keyword = <<>>
                     /\ last'.page = 1 /\ last'.size = 5)
                    => IdsOf(d.list) = <<1, 2, 3, 4, 5>>
               /\ (users = InitUsers /\ last'.keyword = <<>>
                     /\ last'.page = 2 /\ last'.size = 3)
                    => IdsOf(d.list) = <<4, 5>>]_vars

\* page 2 of size 3 was asked of the seed
C15_Witness ==
    /\ last.op = "list"
    /\ last.page = 2
    /\ last.size = 3
    /\ last.keyword = <<>>
    /\ users = InitUsers
    /\ last.body.data.total = 5
    /\ Len(last.body.data.list) = 2

\* C16: in every reachable state the storage order is the ascending order
\* of the ids, and the items list returns are in strictly ascending order
\* of id.
C16_AscendingOrder ==
    /\ \A i, j \in 1 .. Len(users) : i < j => users[i].key < users[j].key
    /\ (last.op = "list" /\ ~last.raised)
         => \A i, j \in 1 .. Len(last.body.data.list) :
              i < j => last.body.data.list[i].id < last.body.data.list[j].id

\* a list after record 1 was deleted, record 6 created and then given a new
\* address
C16_Witness ==
    /\ last.op = "list"
    /\ ~last.raised
    /\ IdsOf(last.body.data.list) = <<2, 3, 4, 5, 6>>
    /\ RecordOf(users, 6).email = S_T_x_com

\* the positions of the records whose username or email holds the word
HitsOf(us, word) ==
    {i \in 1 .. Len(us) :
       \/ ContainsIgnoringCase(word, us[i].user.username)
       \/ ContainsIgnoringCase(word, us[i].user.email)}

\* C17: with a non-empty keyword the filtered set of list is exactly the
\* live records whose username or email holds the keyword, case ignored;
\* with no keyword or an empty one it is every live record.  On the seed
\* the keyword "john" gives john_doe and no other record.
C17_KeywordFilter ==
    [][(last'.op = "list" /\ ~last'.raised)
       => \E d \in {last'.body.data} :
            /\ (last'.keyword # <<>> /\ last'.keyword[1] # <<>>)
                 => \E hits \in {HitsOf(users, last'.keyword[1])} :
                    /\ d.total = Cardinality(hits)
                    /\ \A j \in 1 .. Len(d.list) :
                         \E i \in hits : d.list[j] = Projection(users[i].user)
                    /\ (last'.page = 1 /\ d.total <= last'.size)
                         => {d.list[j].id : j \in 1 .. Len(d.list)}
                              = {users[i].key : i \in hits}
            /\ (last'.keyword = <<>> \/ last'.keyword[1] = <<>>)
                 => /\ d.total = Len(users)
                    /\ (last'.page = 1 /\ d.total <= last'.size)
                         => {d.list[j].id : j \in 1 .. Len(d.list)}
                              = Keys(users)
            /\ (users = InitUsers /\ last'.keyword = <<S_john>>)
                 => /\ d.total = 1
                    /\ last'.page = 1
                         => /\ Len(d.list) = 1
                            /\ d.list[1].username = S_john_doe]_vars

\* the keyword "T@X" found the addresses t@x.com and T@x.com
C17_Witness ==
    /\ last.op = "list"
    /\ last.keyword = <<S_T_X>>
    /\ last.body.data.total = 2
    /\ IdsOf(last.body.data.list) = <<1, 6>>

\* C18: a POST /api/v1/users that passes the validation and uniqueness
\* checks is answered 200 with body code 200, msg "success" and data made
\* of the new id and the requested username, without a password.
C18_PostSuccess ==
    [][(/\ last'.op = "create"
        /\ CreateInputValid(users, last'.username, last'.email,
                            last'.password))
       => /\ last'.status = 200
          /\ last'.body.code = 200
          /\ last'.body.msg = "success"
          /\ last'.body.data # <<>>
          /\ "password" \notin DOMAIN last'.body.data
          /\ last'.body.data.id \in last'.new_ids
          /\ last'.body.data.username = last'.username]_vars

\* the messages of the failures the claim names
ValidationMessages ==
    {"Username is required", "Email is required", "Password is required",
     "Password must be at least 6 characters long",
     "Email is required for update",
     "Validation error: Invalid request data"}

ConflictMessages == {"Username already exists", "Email already exists"}

NotFoundMessages == {"User not found"}

\* C19: the adapter answers by kind of failure: 400 for a validation or a
\* duplicate failure of create and updateEmail (and for the parameters of
\* list that the boundary turns away), 404 for an unknown id in
\* get, updateEmail and delete, 500 with msg "Internal server error" for
\* any other failure; the body's code is the HTTP status in every answer.
C19_StatusByKind ==
    last.op \in {"create", "get", "updateEmail", "delete", "list", "reset"}
      => /\ last.body.code = last.status
         /\ ~last.raised => last.status = 200
         /\ last.raised
              => IF /\ last.op \in {"create", "updateEmail", "list"}
                    /\ last.msg \in ValidationMessages \cup ConflictMessages
                 THEN last.status = 400
                 ELSE IF /\ last.op \in {"get", "updateEmail", "delete"}
                         /\ last.msg \in NotFoundMessages
                 THEN last.status = 404
                 ELSE /\ last.status = 500
                      /\ last.body.msg = "Internal server error"

\* the address is held by a live record other than user_id
HeldByOther(us, user_id, email) ==
    \E i \in 1 .. Len(us) : us[i].key # user_id /\ us[i].user.email = email

\* C20: PUT /api/v1/users/{id} answers 400 when the body has no email, also
\* for an unknown id; otherwise 404 for an unknown id, also when the email
\* is held by a live record; otherwise 400 when another live record holds
\* the email; otherwise 200 with data null.  The three failures leave the
\* state unchanged.
C20_PutOrder ==
    [][last'.op = "updateEmail"
       => IF ~last'.email_given
          THEN /\ last'.status = 400
               /\ users' = users /\ next_id' = next_id
          ELSE IF last'.user_id \notin Keys(users)
          THEN /\ last'.status = 404
               /\ users' = users /\ next_id' = next_id
          ELSE IF HeldByOther(users, last'.user_id, last'.email)
          THEN /\ last'.status = 400
               /\ users' = users /\ next_id' = next_id
          ELSE /\ last'.status = 200
               /\ last'.body.data = <<>>]_vars

\* a PUT without an email for an id that is not live was answered 400
C20_Witness ==
    /\ last.op = "updateEmail"
    /\ ~last.email_given
    /\ last.user_id \notin Keys(users)
    /\ last.status = 400
    /\ last.msg = "Email is required for update"

\* the same records with every password blanked out
Scrub(us) ==
    [i \in 1 .. Len(us) |-> [us[i] EXCEPT !.user.password = <<>>]]

PublicFields == {"id", "username", "email"}

\* C21: no result carries a password: what create returns has no field
\* other than id and username, what get returns and every item list
\* returns has the fields id, username and email only, and get and list
\* return the same on records that differ in their passwords only.
C21_NoPassword ==
    [][/\ (last'.op = "create" /\ ~last'.raised)
            => DOMAIN last'.ret \subseteq {"id", "username"}
       /\ last'.op \in {"create", "get", "updateEmail", "delete", "reset"}
            => last'.body.data = last'.ret
       /\ (last'.op = "get" /\ ~last'.raised)
            => /\ DOMAIN last'.ret = PublicFields
               /\ \E g \in {get_user_by_id(Scrub(users), next_id,
                                            last'.user_id)} :
                    ~g.raised /\ g.ret = last'.ret
       /\ (last'.op = "list" /\ ~last'.raised)
            => /\ DOMAIN last'.body.data = {"total", "list"}
               /\ \A j \in 1 .. Len(last'.body.data.list) :
                    DOMAIN last'.body.data.list[j] = PublicFields
               /\ \E l \in {get_users_list(Scrub(users), next_id,
                                            last'.page, last'.size,
                                            last'.keyword)} :
                    ~l.raised /\ l.ret = last'.body.data]_vars

\* a list returned the record 6 that a create stored with a password
C21_Witness ==
    /\ last.op = "list"
    /\ ~last.raised
    /\ \E j \in 1 .. Len(last.body.data.list) :
         last.body.data.list[j].id = 6
    /\ RecordOf(users, 6).password = S_secret

\* what a create with the arguments of request r does in the state (us, nid)
CreateOf(us, nid, r) == create_user(us, nid, r.username, r.email, r.password)

\* C22: with several requests in flight, handled in any order, no two live
\* records share a username or an email after any handler; and when the
\* create of one connection has stored a record, the create that another
\* connection has in flight with the same username or the same email is
\* turned away as a duplicate and stores nothing if it is handled next.
C22_Serialized ==
    [][/\ \A i, j \in 1 .. Len(users') :
            i # j => /\ users'[i].user.username # users'[j].user.username
                     /\ users'[i].user.email # users'[j].user.email
       /\ \A c \in InConns :
            (/\ inflight[c].op = "create"
             /\ inflight'[c].op = "none"
             /\ StoredKeys(users, users') # {})
            => \A d \in InConns \ {c} :
                 (/\ inflight[d].op = "create"
                  /\ \/ inflight[d].username = inflight[c].username
                     \/ inflight[d].email = inflight[c].email)
                 => \E o \in {CreateOf(users', next_id', inflight[d])} :
                      /\ o.raised
                      /\ o.msg \in ConflictMessages
                      /\ o.users = users'
                      /\ o.next_id = next_id']_vars

\* of two creates in flight with the same email, the first handled stored
\* record 6 and the other was turned away, while a create with the same
\* username is in flight again
C22_Witness ==
    /\ last.op = "create"
    /\ last.username = S_Test
    /\ last.msg = "Email already exists"
    /\ 6 \in Keys(users)
    /\ RecordOf(users, 6).username = S_bob
    /\ RecordOf(users, 6).email = S_bob_x_com
    /\ \E c \in InConns :
         /\ inflight[c].op = "create"
         /\ inflight[c].username = S_bob

\* C23: in every reachable state the counter is greater than the id of
\* every live record and every live record is stored under its own id; a
\* create stores under a key that was not live and changes no live record.
C23_CounterAbove ==
    [][/\ \A i \in 1 .. Len(users') :
            /\ users'[i].key = users'[i].user.id
            /\ users'[i].key < next_id'
       /\ last'.op = "create"
            => /\ last'.new_ids \cap Keys(users) = {}
               /\ \A k \in Keys(users) :
                    /\ k \in Keys(users')
                    /\ RecordOf(users', k) = RecordOf(users, k)]_vars

\* a create after a reset stored record 6 again, with the records 1 to 5
\* of the seed live
C23_Witness ==
    /\ last.op = "create"
    /\ last.new_ids = {6}
    /\ 6 \in deleted \cup assigned
    /\ freed = {}
    /\ issued = 1 .. 6
    /\ 7 \in assigned
    /\ next_id = 7

\* C24: a create whose arguments pass every check takes the counter's value
\* before the call as the new id, adds one to the counter, inserts one
\* record, which holds the given username, email and password, and leaves
\* every record that was live unchanged.
C24_CreateFrame ==
    [][(/\ last'.op = "create"
        /\ CreateInputValid(users, last'.username, last'.email,
                            last'.password))
       => /\ last'.new_ids = {next_id}
          /\ next_id' = next_id + 1
          /\ Len(users') = Len(users) + 1
          /\ Keys(users') = Keys(users) \cup {next_id}
          /\ next_id \notin Keys(users)
          /\ RecordOf(users', next_id)
               = User(next_id, last'.username, last'.email, last'.password)
          /\ \A k \in Keys(users) :
               RecordOf(users', k) = RecordOf(users, k)]_vars

\* with seed record 1 deleted, a create stored "test" with the address
\* t@x.com under id 7
C24_Witness ==
    /\ last.op = "create"
    /\ last.new_ids = {7}
    /\ next_id = 8
    /\ 1 \notin Keys(users)
    /\ RecordOf(users, 7)
         = User(7, S_test, S_t_x_com, S_secret)

\* C25: updateEmail compares the new email with the records other than the
\* target: for a live id it succeeds exactly when no other live record
\* holds the email; with the target's own current email it succeeds and
\* leaves the state unchanged; and the same updateEmail applied again after
\* it succeeded succeeds again and leaves the state it had reached.
C25_UpdateOwnEmail ==
    [][(/\ last'.op = "updateEmail"
        /\ last'.email_given
        /\ last'.user_id \in Keys(users))
       => /\ ~last'.raised
               <=> ~HeldByOther(users, last'.user_id, last'.email)
          /\ RecordOf(users, last'.user_id).email = last'.email
               => /\ ~last'.raised
                  /\ last'.status = 200
                  /\ users' = users
                  /\ next_id' = next_id
          /\ ~last'.raised
               => \E o \in {router_update_user_email(users', next_id',
                                 last'.user_id, <<last'.email>>)} :
                    /\ ~o.raised
                    /\ o.users = users'
                    /\ o.next_id = next_id']_vars

\* seed record 1 was given the address it has, with nothing else changed
\* since the start
C25_Witness ==
    /\ last.op = "updateEmail"
    /\ ~last.raised
    /\ last.user_id = 1
    /\ last.email = S_t_x_com
    /\ users = InitUsers
    /\ next_id = InitNextId

\* C26: a create or an updateEmail is turned away as a duplicate only for a
\* username or email that a live record holds at the moment of the call
\* (for updateEmail a live record other than the target): what a deleted
\* record held, and the address an updateEmail replaced, are free again.
C26_LiveOnly ==
    [][/\ (last'.op = "create" /\ last'.msg = "Username already exists")
            => UsernameLive(users, last'.username)
       /\ (last'.op = "create" /\ last'.msg = "Email already exists")
            => EmailLive(users, last'.email)
       /\ (last'.op = "updateEmail" /\ last'.msg = "Email already exists")
            => HeldByOther(users, last'.user_id, last'.email)
       /\ (last'.op = "create"
             /\ CreateInputValid(users, last'.username, last'.email,
                                 last'.password))
            => /\ last'.msg \notin ConflictMessages
               /\ last'.new_ids # {}
       /\ (last'.op = "updateEmail" /\ last'.email_given
             /\ last'.user_id \in Keys(users)
             /\ ~HeldByOther(users, last'.user_id, last'.email))
            => ~last'.raised]_vars

\* the username and the address of the deleted seed record 1 were taken by
\* a create, and the address an updateEmail took from record 6 went to the
\* record created next
C26_Witness ==
    /\ last.op = "create"
    /\ last.username = S_test
    /\ last.email = S_bob_x_com
    /\ last.new_ids = {7}
    /\ 1 \in deleted
    /\ 1 \notin Keys(users)
    /\ 6 \in Keys(users)
    /\ RecordOf(users, 6).username = S_bob
    /\ RecordOf(users, 6).email = S_t_x_com

\* the least n with n * size >= total
CeilDiv(total, size) == (total + size - 1) \div size

\* the items of the pages from to upto, one page after the other
RECURSIVE PagesFrom(_, _, _, _, _, _)
PagesFrom(us, nid, filtered, size, from, upto) ==
    IF from > upto THEN <<>>
    ELSE Paginate(us, nid, filtered, from, size).ret.list
           \o PagesFrom(us, nid, filtered, size, from + 1, upto)

\* C27: in the state a list call with size >= 1 was made in, the pages 1
\* to ceil(total/size) of its keyword and size, one after the other, hold
\* every record of the filtered set once, in ascending order of id, and
\* the pages after them are empty.
C27_PagesPartition ==
    [][(last'.op = "list" /\ last'.size >= 1)
       => \E f \in {FilterUsers(Values(users), last'.keyword)} :
          \E want \in {Passing(users, last'.keyword)} :
          \E n \in {CeilDiv(Len(f), last'.size)} :
          \E all \in {PagesFrom(users, next_id, f, last'.size, 1, n)} :
            /\ ~last'.raised => last'.body.data.total = Len(want)
            /\ Len(f) = Len(want)
            /\ all = [i \in 1 .. Len(want) |-> Projection(want[i])]
            /\ \A i, j \in 1 .. Len(all) : i < j => all[i].id < all[j].id
            /\ \A p \in 1 .. n :
                 ~Paginate(users, next_id, f, p, last'.size).raised
            /\ \A p \in n + 1 .. n + 2 :
                 \E o \in {get_users_list(users, next_id, p, last'.size,
                                           last'.keyword)} :
                   ~o.raised /\ o.ret.list = <<>>
            /\ (~last'.raised /\ last'.page > n)
                 => last'.body.data.list = <<>>
            /\ (~last'.raised /\ last'.page \in 1 .. n)
                 => last'.body.data.list
                      = PagesFrom(users, next_id, f, last'.size,
                                  last'.page, last'.page)]_vars

\* the third page of size 3 of seven records holds the last one
C27_Witness ==
    /\ last.op = "list"
    /\ last.page = 3
    /\ last.size = 3
    /\ last.keyword = <<>>
    /\ Len(users) = 7
    /\ last.body.data.total = 7
    /\ Len(last.body.data.list) = 1
    /\ last.body.data.list[1].id = users[7].key

\* C28: get and list are read-only: a get or a list, failed or not, leaves
\* the records and the counter as they were, and the same call made again
\* right after it gives the same answer.
C28_ReadOnly ==
    [][/\ last'.op \in {"get", "list"}
            => /\ users' = users
               /\ next_id' = next_id
       /\ last'.op = "get"
            => \E g \in {get_user_by_id(users', next_id', last'.user_id)} :
                 /\ g.raised = last'.raised
                 /\ g.msg = last'.msg
                 /\ g.ret = last'.ret
                 /\ g.users = users
                 /\ g.next_id = next_id
       /\ last'.op = "list"
            => \E l \in {batch_query_users(users', next_id', last'.page,
                                            last'.size, last'.keyword)} :
                 /\ l.raised = last'.raised
                 /\ batch_query_users_body(l) = last'.body
                 /\ l.users = users
                 /\ l.next_id = next_id]_vars

\* a get of the created record 6 returned it and the record is live
C28_Witness ==
    /\ last.op = "get"
    /\ ~last.raised
    /\ last.user_id = 6
    /\ last.ret.username = S_bob
    /\ 6 \in Keys(users)
    /\ RecordOf(users, 6).username = S_bob

\* items is a run of consecutive elements of want
IsRunOf(items, want) ==
    \E k \in 0 .. Len(want) - Len(items) :
      \A j \in 1 .. Len(items) : items[j] = Projection(want[k + j])

\* C29: a call of the service's list with a page and a size of any sign
\* does not fail: it returns as total the number of records passing the
\* filter and as items a run, possibly empty, of consecutive filtered
\* records, no more of them than pass the filter, and changes nothing.
\* Over HTTP a page below 1, a size below 1 and a size above 100 are
\* answered 400 with no data and the service not called; pages and sizes
\* in range are answered 200.
C29_ListNeverFails ==
    [][/\ last'.op = "get_users_list"
            => \E want \in {Passing(users, last'.keyword)} :
                 /\ ~last'.raised
                 /\ last'.ret.total = Len(want)
                 /\ Len(last'.ret.list) <= Len(want)
                 /\ IsRunOf(last'.ret.list, want)
                 /\ users' = users
                 /\ next_id' = next_id
       /\ last'.op = "list"
            => IF last'.page < 1 \/ last'.size < 1 \/ last'.size > 100
               THEN /\ last'.raised
                    /\ last'.status = 400
                    /\ last'.body.code = 400
                    /\ last'.body.data = <<>>
                    /\ last'.msg # "Internal server error"
                    /\ users' = users
                    /\ next_id' = next_id
               ELSE /\ ~last'.raised
                    /\ last'.status = 200]_vars

\* a call with size -1 returned every record but the last, seven being live
C29_Witness ==
    /\ last.op = "get_users_list"
    /\ last.page = 1
    /\ last.size = -1
    /\ last.keyword = <<>>
    /\ ~last.raised
    /\ last.ret.total = 7
    /\ Len(last.ret.list) = 6

\* a GET /users with size 101 was answered 400
C29_WitnessHttp ==
    /\ last.op = "list"
    /\ last.size = 101
    /\ last.status = 400

S_bob_padded == <<" ", "b", "o", "b">>

S_bob_x_com_padded == <<"b", "o", "b", "@", "x", ".", "c", "o", "m", " ">>

S_12345_padded == <<" ", "1", "2", "3", "4", "5">>

\* C30: a create with a username, email or password made of whitespace only
\* fails with the 'required' message of the first such argument, also for
\* a password of 6 whitespace characters or more, and stores nothing; the
\* record a create stores has no blank username, email or password and
\* holds the three arguments as they were given, untrimmed.
C30_BlankIsMissing ==
    [][last'.op = "create"
       => /\ Blank(last'.username)
               => /\ last'.raised
                  /\ last'.msg = "Username is required"
          /\ (~Blank(last'.username) /\ Blank(last'.email))
               => /\ last'.raised
                  /\ last'.msg = "Email is required"
          /\ (~Blank(last'.username) /\ ~Blank(last'.email)
                /\ Blank(last'.password))
               => /\ last'.raised
                  /\ last'.msg = "Password is required"
          /\ (\/ Blank(last'.username)
              \/ Blank(last'.email)
              \/ Blank(last'.password))
               => /\ last'.status = 400
                  /\ last'.new_ids = {}
                  /\ users' = users
                  /\ next_id' = next_id
          /\ \A k \in last'.new_ids :
               /\ ~Blank(RecordOf(users', k).username)
               /\ ~Blank(RecordOf(users', k).email)
               /\ ~Blank(RecordOf(users', k).password)
               /\ RecordOf(users', k).username = last'.username
               /\ RecordOf(users', k).email = last'.email
               /\ RecordOf(users', k).password = last'.password]_vars

\* a create with a password of seven whitespace characters was turned away
\* while the record " bob" with the address "bob@x.com " and the password
\* " 12345" is live as it was given
C30_Witness ==
    /\ last.op = "create"
    /\ last.msg = "Password is required"
    /\ Len(last.password) = 7
    /\ ~Blank(last.username)
    /\ 6 \in Keys(users)
    /\ RecordOf(users, 6)
         = User(6, S_bob_padded, S_bob_x_com_padded, S_12345_padded)

====
